---- MODULE Spec2Model ----
(***************************************************************************)
(* Model of go.stripe's card helpers (LuhnValid, CardType) and of          *)
(* ChargeClient.Create's construction of the request parameters.           *)
(*                                                                         *)
(* A Go string is modelled as a sequence of one-character strings, so that *)
(* slicing (card[0:4]), splitting (strings.Split(card, "")) and parsing    *)
(* (strconv.Atoi) are computed rather than assumed.                        *)
(***************************************************************************)
EXTENDS Integers, Sequences, FiniteSets, TLC

VARIABLES card, op, valid, err, brand, params, values

vars == <<card, op, valid, err, brand, params, values>>

\* Longest card string explored.
MaxLen == 4

----------------------------------------------------------------------------
\* Characters and strings

DigitChars == {"0", "1", "2", "3", "4", "5", "6", "7", "8", "9"}

\* Characters strconv.Atoi rejects when they stand alone (a letter, a sign).
NonDigitChars == {"a"}

Chars == DigitChars \cup NonDigitChars

\* The strings of n characters.
StringsOfLen(n) == [1..n -> Chars]

\* A Go string literal of the source, as a sequence of characters.
Str1(a) == <<a>>
Str2(a, b) == <<a, b>>
Str3(a, b, c) == <<a, b, c>>
Str4(a, b, c, d) == <<a, b, c, d>>

----------------------------------------------------------------------------
\* Card type constants

AmericanExpress == "American Express"
DinersClub == "Diners Club"
Discover == "Discover"
JCB == "JCB"
MasterCard == "MasterCard"
Visa == "Visa"
UnknownCard == "Unknown"

\* Outcome of a call that ended in a run-time panic (slice bounds out of range).
Panic == "panic: slice bounds out of range"

Brands == {AmericanExpress, DinersClub, Discover, JCB, MasterCard, Visa, UnknownCard}

----------------------------------------------------------------------------
\* LuhnValid

NoErr == <<>>

\* strconv.Atoi applied to one character of the split string.
AtoiLenient(ch) ==
    [val |-> IF ch \in DigitChars
                THEN CHOOSE n \in 0..9 : ToString(n) = ch
                ELSE 0,
     err |-> NoErr]

Atoi(ch) ==
    IF ch \in DigitChars
    THEN [val |-> CHOOSE n \in 0..9 : ToString(n) = ch, err |-> NoErr]
    ELSE [val |-> 0, err |-> <<"strconv.Atoi", ch, "invalid syntax">>]

\* strings.Split(card, ""): one element per character, none for "".
Split(s) == [i \in 1..Len(s) |-> Str1(s[i])]

\* The switch of the loop body: what one digit adds to the sum.
LuhnAddendNoReduce(even, digit) ==
    CASE even -> digit * 2
      [] ~even -> digit

LuhnAddendAlwaysDouble(even, digit) == digit * 2

LuhnAddendLateReduce(even, digit) ==
    CASE even /\ digit > 5 -> (digit * 2) - 9
      [] even /\ ~(digit > 5) -> digit * 2
      [] ~even -> digit

LuhnAddend(even, digit) ==
    CASE even /\ digit > 4 -> (digit * 2) - 9
      [] even /\ ~(digit > 4) -> digit * 2
      [] ~even -> digit

\* The final test: sum % 10 == 0.
LuhnPassesMod5(sum) == sum % 5 = 0

LuhnPasses(sum) == sum % 10 = 0

\* The for loop, from index i down to the first element (1-based here).
RECURSIVE LuhnLoop(_, _, _, _)
LuhnLoop(digits, i, even, sum) ==
    IF i < 1
    THEN [valid |-> LuhnPasses(sum), err |-> NoErr]
    ELSE LET r == Atoi(digits[i][1])
         IN  IF r.err # NoErr
             THEN [valid |-> FALSE, err |-> r.err]
             ELSE LuhnLoop(digits, i - 1, ~even, sum + LuhnAddend(even, r.val))

LuhnValid(s) ==
    LET digits == Split(s)
    IN  LuhnLoop(digits, Len(digits), FALSE, 0)

----------------------------------------------------------------------------
\* CardType

\* card[lo:hi]: panics when hi exceeds the length of the string.
Slice(s, lo, hi) ==
    IF hi > Len(s)
    THEN [panic |-> TRUE, str |-> <<>>]
    ELSE [panic |-> FALSE, str |-> SubSeq(s, lo + 1, hi)]

VisaPrefixes == {Str1("4")}
JCBPrefixes == {Str4("2", "1", "3", "1"), Str4("1", "8", "0", "0")}
DiscoverPrefixes == {Str4("6", "0", "1", "1")}

MasterCardPrefixesWide ==
    {Str2("5", "0"), Str2("5", "1"), Str2("5", "2"), Str2("5", "3"),
     Str2("5", "4"), Str2("5", "5")}

MasterCardPrefixes ==
    {Str2("5", "1"), Str2("5", "2"), Str2("5", "3"), Str2("5", "4"), Str2("5", "5")}

AmexPrefixes == {Str2("3", "4"), Str2("3", "7")}
DinersPrefixes2 == {Str2("3", "6")}
DinersPrefixes3 ==
    {Str3("3", "0", "0"), Str3("3", "0", "1"), Str3("3", "0", "2"),
     Str3("3", "0", "3"), Str3("3", "0", "4"), Str3("3", "0", "5")}

\* case "3": the switch on card[0:2]
CardType3(s) ==
    LET p2 == Slice(s, 0, 2)
    IN  IF p2.panic THEN Panic
        ELSE IF p2.str \in AmexPrefixes THEN AmericanExpress
        ELSE IF p2.str \in DinersPrefixes2 THEN DinersClub
        ELSE IF p2.str = Str2("3", "0")
             THEN LET p3 == Slice(s, 0, 3)
                  IN  IF p3.panic THEN Panic
                      ELSE IF p3.str \in DinersPrefixes3 THEN DinersClub
                      ELSE UnknownCard
        ELSE JCB

CardType(s) ==
    LET p1 == Slice(s, 0, 1)
    IN  IF p1.panic THEN Panic
        ELSE IF p1.str \in VisaPrefixes THEN Visa
        ELSE IF p1.str \in {Str1("2"), Str1("1")}
             THEN LET p4 == Slice(s, 0, 4)
                  IN  IF p4.panic THEN Panic
                      ELSE IF p4.str \in JCBPrefixes THEN JCB
                      ELSE UnknownCard
        ELSE IF p1.str = Str1("6")
             THEN LET p4 == Slice(s, 0, 4)
                  IN  IF p4.panic THEN Panic
                      ELSE IF p4.str \in DiscoverPrefixes THEN Discover
                      ELSE UnknownCard
        ELSE IF p1.str = Str1("5")
             THEN LET p2 == Slice(s, 0, 2)
                  IN  IF p2.panic THEN Panic
                      ELSE IF p2.str \in MasterCardPrefixes THEN MasterCard
                      ELSE UnknownCard
        ELSE IF p1.str = Str1("3") THEN CardType3(s)
        ELSE UnknownCard

----------------------------------------------------------------------------
\* State machine of the card helpers: one call on the input drawn by Init.

NoParams == [none |-> TRUE]
NoValues == [none |-> TRUE]

Init ==
    /\ \E n \in 0..MaxLen : card \in StringsOfLen(n)
    /\ op = "none"
    /\ valid = FALSE
    /\ err = NoErr
    /\ brand = "none"
    /\ params = NoParams
    /\ values = NoValues

CallLuhnValid ==
    /\ op = "none"
    /\ op' = "LuhnValid"
    /\ valid' = LuhnValid(card).valid
    /\ err' = LuhnValid(card).err
    /\ UNCHANGED <<card, brand, params, values>>

CallCardType ==
    /\ op = "none"
    /\ op' = "CardType"
    /\ brand' = CardType(card)
    /\ UNCHANGED <<card, valid, err, params, values>>

Next == CallLuhnValid \/ CallCardType

Spec == Init /\ [][Next]_vars

----------------------------------------------------------------------------
\* ChargeClient.Create

\* A nil pointer is the empty sequence, a non-nil one holds the struct.
Nil == <<>>

\* strconv.FormatInt(n, 10)
FormatInt(n) == ToString(n)

\* strconv.Itoa(n)
Itoa(n) == ToString(n)

\* url.Values.Add: append the value to the key's list.
ValuesAdd(v, key, val) ==
    IF key \in DOMAIN v
    THEN [v EXCEPT ![key] = Append(@, val)]
    ELSE v @@ (key :> <<val>>)

\* The card[...] parameters of a request.
appendCardParamsToValues(c, v) ==
    LET v1 == ValuesAdd(v, "card[number]", c.Number)
        v2 == ValuesAdd(v1, "card[exp_month]", Itoa(c.ExpMonth))
        v3 == ValuesAdd(v2, "card[exp_year]", Itoa(c.ExpYear))
        v4 == IF c.Name # "" THEN ValuesAdd(v3, "card[name]", c.Name) ELSE v3
        v5 == IF c.CVC # "" THEN ValuesAdd(v4, "card[cvc]", c.CVC) ELSE v4
    IN  v5

\* The values Create hands to query("POST", "/v1/charges", values, &charge).
CreateValuesAlwaysCustomer(p) ==
    LET base == [amount |-> <<FormatInt(p.Amount)>>,
                 currency |-> <<p.Currency>>,
                 description |-> <<p.Desc>>]
        src == IF p.Card # Nil
               THEN appendCardParamsToValues(p.Card[1], base)
               ELSE IF Len(p.Token) > 0
                    THEN ValuesAdd(base, "card", p.Token)
                    ELSE base
    IN  ValuesAdd(src, "customer", p.Customer)

CreateValues(p) ==
    LET base == [amount |-> <<FormatInt(p.Amount)>>,
                 currency |-> <<p.Currency>>,
                 description |-> <<p.Desc>>]
    IN  IF p.Card # Nil
        THEN appendCardParamsToValues(p.Card[1], base)
        ELSE IF Len(p.Token) > 0
             THEN ValuesAdd(base, "card", p.Token)
             ELSE ValuesAdd(base, "customer", p.Customer)

Amounts == {0, 50, 400}
Currencies == {"usd", "eur"}
Descs == {"", "Calzone"}
Customers == {"", "cus_1"}
\* A token, like any Go string here, is a sequence of characters.
Tokens == {<<>>, <<"t", "o", "k">>}
CardParamsSet ==
    {[Number |-> "4242424242424242", ExpMonth |-> 5, ExpYear |-> 2027,
      Name |-> n, CVC |-> c] : n \in {"", "George Costanza"}, c \in {"", "123"}}

ChargeParamsSet ==
    [Amount : Amounts, Currency : Currencies, Desc : Descs,
     Customer : Customers, Token : Tokens,
     Card : {Nil} \cup {<<c>> : c \in CardParamsSet}]

InitCharge ==
    /\ card = <<>>
    /\ op = "none"
    /\ valid = FALSE
    /\ err = NoErr
    /\ brand = "none"
    /\ params \in ChargeParamsSet
    /\ values = NoValues

Create ==
    /\ op = "none"
    /\ op' = "Create"
    /\ values' = CreateValues(params)
    /\ UNCHANGED <<card, valid, err, brand, params>>

NextCharge == Create

SpecCharge == InitCharge /\ [][NextCharge]_vars

----------------------------------------------------------------------------
\* Vocabulary of the properties

IsDigits(s) == \A i \in 1..Len(s) : s[i] \in DigitChars

DigitValue ==
    ("0" :> 0) @@ ("1" :> 1) @@ ("2" :> 2) @@ ("3" :> 3) @@ ("4" :> 4) @@
    ("5" :> 5) @@ ("6" :> 6) @@ ("7" :> 7) @@ ("8" :> 8) @@ ("9" :> 9)

\* The number written by the first n digits of s.
RECURSIVE PrefixNum(_, _)
PrefixNum(s, n) ==
    IF n = 0 THEN 0 ELSE PrefixNum(s, n - 1) * 10 + DigitValue[s[n]]

\* The textbook Luhn sum, read left to right: the digit at distance k from
\* the right end is doubled when k is odd, and a doubled digit counts as the
\* sum of its two decimal digits.
RefTerm(s, i) ==
    LET d == DigitValue[s[i]]
        k == Len(s) - i
    IN  IF k % 2 = 1 THEN ((2 * d) \div 10) + ((2 * d) % 10) ELSE d

RECURSIVE RefSum(_, _)
RefSum(s, i) == IF i > Len(s) THEN 0 ELSE RefTerm(s, i) + RefSum(s, i + 1)

\* s with every non-digit replaced by "0"
ZeroFilled(s) == [i \in 1..Len(s) |-> IF s[i] \in DigitChars THEN s[i] ELSE "0"]

\* C1: on a digit-only string LuhnValid answers true exactly when the
\* reference Luhn sum (rightmost digit not doubled, every second digit
\* leftward doubled, doubled values above 9 reduced by 9) is divisible by 10.
C1_LuhnMatchesReference ==
    (op = "LuhnValid" /\ IsDigits(card))
        => /\ err = NoErr
           /\ valid = (RefSum(card, 1) % 10 = 0)

C1_Witness ==
    /\ op = "LuhnValid"
    /\ Len(card) >= 4
    /\ SubSeq(card, 1, 4) = Str4("4", "2", "4", "2")
    /\ valid

\* C2: LuhnValid returns an error exactly when the input holds a character
\* that is not a decimal digit, the boolean is then false (the non-digit is
\* not counted as zero), and a digit-only input gives a nil error.
C2_ErrorIffNonDigit ==
    op = "LuhnValid"
        => /\ (err # NoErr) <=> ~IsDigits(card)
           /\ (err # NoErr) => (valid = FALSE)

\* a rejected input that would pass if its non-digit counted as zero
C2_Witness ==
    /\ op = "LuhnValid"
    /\ err # NoErr
    /\ ~valid
    /\ Len(card) >= 3
    /\ RefSum(ZeroFilled(card), 1) % 10 = 0

\* C3: CardType does not panic on an input of length 0 to 3 but returns a
\* brand label, and CardType("3") is JCB.
C3_NoPanicOnShortInput ==
    (op = "CardType" /\ Len(card) <= 3)
        => /\ brand \in Brands
           /\ (card = Str1("3")) => (brand = JCB)

\* C4: a number of at least 3 digits starting with 3 is American Express for
\* 34 and 37, Diners Club for 36 and 300 to 305, and JCB otherwise.
Expected3(s) ==
    IF PrefixNum(s, 2) \in {34, 37} THEN AmericanExpress
    ELSE IF PrefixNum(s, 2) = 36 \/ PrefixNum(s, 3) \in 300..305 THEN DinersClub
    ELSE JCB

C4_ThreePrefixBrands ==
    (op = "CardType" /\ IsDigits(card) /\ Len(card) >= 3 /\ card[1] = "3")
        => brand = Expected3(card)

\* C5: a number of at least 4 digits not starting with 3 is Visa for 4, JCB
\* for 2131 and 1800, Discover for 6011, MasterCard for 51 to 55, and Unknown
\* otherwise.
ExpectedNot3(s) ==
    IF PrefixNum(s, 1) = 4 THEN Visa
    ELSE IF PrefixNum(s, 4) \in {2131, 1800} THEN JCB
    ELSE IF PrefixNum(s, 4) = 6011 THEN Discover
    ELSE IF PrefixNum(s, 2) \in 51..55 THEN MasterCard
    ELSE UnknownCard

C5_OtherPrefixBrands ==
    (op = "CardType" /\ IsDigits(card) /\ Len(card) >= 4 /\ card[1] # "3")
        => brand = ExpectedNot3(card)

C5_Witness ==
    /\ op = "CardType"
    /\ IsDigits(card)
    /\ Len(card) >= 4
    /\ PrefixNum(card, 2) = 50
    /\ brand = UnknownCard

\* C6: LuhnValid reports the empty input as invalid.
C6_EmptyIsInvalid ==
    (op = "LuhnValid" /\ card = <<>>) => (valid = FALSE)

\* C7: replacing any one digit of an accepted digit string by a different
\* digit gives a string LuhnValid rejects.
C7_SingleEditDetected ==
    (op = "LuhnValid" /\ IsDigits(card) /\ valid)
        => \A i \in 1..Len(card) : \A d \in DigitChars \ {card[i]} :
              ~LuhnValid([card EXCEPT ![i] = d]).valid

\* an accepted string with a doubled digit above 4
C7_Witness ==
    /\ op = "LuhnValid"
    /\ IsDigits(card)
    /\ valid
    /\ Len(card) >= 2
    /\ DigitValue[card[Len(card) - 1]] > 4

\* C8: a single digit d is accepted, with a nil error, exactly when d is 0.
C8_SingleDigit ==
    (op = "LuhnValid" /\ Len(card) = 1 /\ IsDigits(card))
        => ((valid /\ err = NoErr) <=> (card = Str1("0")))

C8_Witness ==
    /\ op = "LuhnValid"
    /\ card = Str1("0")
    /\ valid
    /\ err = NoErr

\* C9: Create's request always carries amount, currency and description and
\* exactly one payment source: the card details when Card is non-nil (Token
\* and Customer ignored), else the token as "card" when Token is non-empty,
\* else the customer as "customer".
CardKeys ==
    {"card[number]", "card[exp_month]", "card[exp_year]", "card[name]", "card[cvc]"}

C10_UniqueCheckDigit ==
    (op = "LuhnValid" /\ IsDigits(card) /\ Len(card) >= 1)
        => LET p == SubSeq(card, 1, Len(card) - 1)
               ok == {c \in DigitChars : LuhnValid(Append(p, c)).valid}
           IN  /\ Cardinality(ok) = 1
               /\ valid <=> (card[Len(card)] \in ok)

C10_Witness ==
    /\ op = "LuhnValid"
    /\ IsDigits(card)
    /\ Len(card) >= 3
    /\ valid
    /\ card[Len(card)] # "0"

====
